---- MODULE Spec2Model ----
(***************************************************************************)
(* A model of the lanista actor scaffold: the gevent contracts of          *)
(* lanista/core.py (Arena, Agent, Game), the thread actors of              *)
(* lanista/threadactors.py (HandlerRegistry, ThreadActor, ArenaThread,     *)
(* AgentThread, GameThread) and the ping-pong script of                    *)
(* lanista/tests/threading_tests.py (BasicActor).                          *)
(***************************************************************************)
EXTENDS Integers, Sequences, FiniteSets, TLC

\* ------------------------------------------------------------------------
\* Bounds of the model
\* ------------------------------------------------------------------------
\* Envelopes put in one run by threads other than the actors' own.
MaxPuts == 2
\* Envelopes BasicActors send in reply in one run.
MaxReplies == 3
\* API calls made in one run of the construction / pass-through model.
MaxCalls == 2
\* Registrations and dispatches made in one run of the dispatch model.
MaxDispatch == 2
\* The largest number of episodes asked of Game.run.
MaxEpisodes == 2
\* Agents registered in one run while the live() loops run.
MaxRegisters == 1

\* ------------------------------------------------------------------------
\* Actors and their classes
\* ------------------------------------------------------------------------
ArenaThreads == {"A1", "A2"}
AgentThreads == {"a1", "a2"}
GameThreads == {"g1"}
BasicActors == {"meep", "moop"}
CoreArenas == {"cA"}
CoreAgents == {"cAg"}
CoreGames == {"cG"}

ThreadActors == ArenaThreads \cup AgentThreads \cup GameThreads
CoreActors == CoreArenas \cup CoreAgents \cup CoreGames
Actors == ThreadActors \cup BasicActors \cup CoreActors

\* A thread outside the actors (the main thread of a script).
Main == "main"

ClassOf(a) ==
    CASE a \in ArenaThreads -> "ArenaThread"
      [] a \in AgentThreads -> "AgentThread"
      [] a \in GameThreads -> "GameThread"
      [] a \in BasicActors -> "BasicActor"
      [] a \in CoreArenas -> "Arena"
      [] a \in CoreAgents -> "Agent"
      [] a \in CoreGames -> "Game"

ThreadClasses == {"ThreadActor", "ArenaThread", "AgentThread", "GameThread"}

\* ------------------------------------------------------------------------
\* Messages
\* ------------------------------------------------------------------------
PoisonPill == "PoisonPill"
UnregisteredMessage == "UnregisteredMessage"
\* Kinds of message put into mailboxes: the pill and a domain payload.
SentKinds == {PoisonPill, "Data"}
\* Kinds a registry may be keyed by.
Kinds == {PoisonPill, UnregisteredMessage, "Data", "Other"}

None == "None"

\* Handlers: the two of ThreadActor and two domain-supplied ones, one that
\* returns and one that raises.
Handlers == {"onPoisonPill", "onUnregisteredMessage", "onData", "onFail"}

\* ------------------------------------------------------------------------
\* State
\* ------------------------------------------------------------------------
VARIABLES
    scenario,         \* which program runs: "thread", "basic", "core", "api", "dispatch"
    pc,               \* position of each actor's live() loop
    error,            \* the exception that left live(), per actor
    mailbox,          \* self.mailbox / self.inbox: sequence of envelopes
    current,          \* the envelope live() holds after get()
    agents,           \* Arena.agents / Game.agents
    games,            \* Arena.games, per arena
    registryType,     \* the container type of agents / games, per arena
    iter,             \* position of the iteration of the except block
    receiveImpl,      \* how the domain supplies _receive
    publishImpl,      \* how the domain supplies _publish
    message_handlers, \* class -> HandlerRegistry
    invoked,          \* handlers called by the last handleMessage, per actor
    enqueued,         \* history: every envelope put, per mailbox, in order
    delivered,        \* history: every envelope returned by get, per mailbox
    overfull,         \* history: the actor dequeued with more pending than expected
    accepted,         \* history: live() caught a PoisonPill, per actor
    raised,           \* history: the exception the last dispatch raised, per actor
    nreplies,         \* envelopes BasicActors have sent in reply so far
    nputs,            \* envelopes put so far by threads other than the actors' own
    arenas,           \* Agent.arenas / Game.arenas
    constructed,      \* outcome of each Game construction
    lastCall,         \* the last pass-through call made and its outcome
    ncalls,           \* API calls / dispatches made so far
    episodes,         \* Game.episodes
    requested,        \* history: the episodes argument of Game.run, 0 before the call
    di_used,          \* the size the dict iterator of the except block recorded
    nregs,            \* agents registered so far while the live() loops run
    atCatch           \* history: envelopes the BasicActors had taken when one caught the pill

vars == <<scenario, pc, error, mailbox, current, agents, games, registryType, iter,
          receiveImpl, publishImpl, message_handlers, invoked, enqueued, delivered,
          overfull, accepted, raised, nreplies, nputs, arenas, constructed, lastCall,
          ncalls, episodes, requested, di_used, nregs, atCatch>>

\* ------------------------------------------------------------------------
\* HandlerRegistry (a dict keyed by message class) and dispatch
\* ------------------------------------------------------------------------
EmptyRegistry == [k \in {} |-> None]

\* dict.get(typ): the entry, or None.
Get(registry, typ) == IF typ \in DOMAIN registry THEN registry[typ] ELSE None

\* HandlerRegistry.__call__(typ)(func): self[typ] = func, last write wins.
RegistryCall(registry, typ, func) ==
    [k \in (DOMAIN registry) \cup {typ} |-> IF k = typ THEN func ELSE registry[k]]

\* ThreadActor.message_handlers after the two decorated methods of the class.
ThreadActorRegistry ==
    RegistryCall(RegistryCall(EmptyRegistry, UnregisteredMessage, "onUnregisteredMessage"),
                 PoisonPill, "onPoisonPill")

\* message_handlers as the class statements leave it: each subclass rebinds
\* the attribute to a fresh, empty HandlerRegistry.
SourceRegistries ==
    [c \in ThreadClasses |-> IF c = "ThreadActor" THEN ThreadActorRegistry ELSE EmptyRegistry]

\* Resolve with the two lookups swapped: the fallback shadows the handler
\* registered for the kind.
Resolve_FallbackFirst(registry, kind) ==
    LET fallback == Get(registry, UnregisteredMessage)
    IN  IF fallback # None THEN fallback ELSE Get(registry, kind)

\* registry.get(message.__class__) or registry.get(UnregisteredMessage)
Resolve(registry, kind) ==
    LET direct == Get(registry, kind)
    IN  IF direct # None THEN direct ELSE Get(registry, UnregisteredMessage)

\* ThreadActor.handleMessage: the sequence of handler calls it makes.
handleMessage(self, sender, message) ==
    LET handler_function == Resolve(message_handlers[ClassOf(self)], message.kind)
    IN  IF handler_function # None
        THEN <<[handler |-> handler_function, self |-> self,
                sender |-> sender, message |-> message]>>
        ELSE <<>>

\* What a handler does when called with a message of this kind.
HandlerOutcome(handler, kind) ==
    CASE handler = "onPoisonPill" ->
            \* raise message: a TypeError when the message is no exception
            IF kind = PoisonPill THEN PoisonPill ELSE "TypeError"
      [] handler = "onUnregisteredMessage" -> "return"
      [] handler = "onData" -> "return"
      [] handler = "onFail" -> "DomainError"

\* Arena/Agent/Game.receive -> self._receive(*args).
receive(self, sender, message) ==
    CASE receiveImpl = "unimplemented" -> "NotImplementedError"
      [] receiveImpl = "handleMessage" ->
            LET calls == handleMessage(self, sender, message)
            IN  IF calls = <<>> THEN "return"
                ELSE HandlerOutcome(calls[1].handler, message.kind)
      [] OTHER -> "return"

\* ------------------------------------------------------------------------
\* The live() loops
\* ------------------------------------------------------------------------
Running(a) == pc[a] \in {"check", "get", "handle"}
Terminating(a) == pc[a] \in {"exceptAgents", "exceptGames"}
Terminated(a) == pc[a] = "terminated"
Crashed(a) == pc[a] = "crashed"
InPlay(a) == pc[a] # "absent"

\* live() with the try inside the while loop: the pill is caught and the
\* loop goes on.
LiveAfter_Resurrect(class, outcome) ==
    IF outcome \in {"return", PoisonPill} THEN "check" ELSE "crashed"

\* live() with `except Exception`: any error of a handler ends the loop as
\* the pill does.
LiveAfter_Swallow(class, outcome) ==
    CASE outcome = "return" -> "check"
      [] class = "ArenaThread" -> "exceptAgents"
      [] OTHER -> "terminated"

\* GameThread.live and AgentThread.live with the except block of
\* ArenaThread.live.
LiveAfter_LeafPropagates(class, outcome) ==
    CASE outcome = "return" -> "check"
      [] outcome = PoisonPill /\ class \in {"ArenaThread", "AgentThread", "GameThread"} ->
            "exceptAgents"
      [] outcome = PoisonPill /\ class = "BasicActor" -> "terminated"
      [] OTHER -> "crashed"

\* Where live() goes after self.receive(...) ended with this outcome:
\* the thread classes wrap the loop in try/except PoisonPill, the gevent
\* classes of core.py have no handler at all.
LiveAfter(class, outcome) ==
    CASE outcome = "return" -> "check"
      [] outcome = PoisonPill /\ class = "ArenaThread" -> "exceptAgents"
      [] outcome = PoisonPill /\ class \in {"AgentThread", "GameThread", "BasicActor"} ->
            "terminated"
      [] OTHER -> "crashed"

\* Does live() of this class compare len(mailbox) with the expected senders?
ChecksOverflow(class) == class \in {"Arena", "Agent"}

\* The number of envelopes live() tolerates in the mailbox.
Expected(a) ==
    IF ClassOf(a) \in {"Arena", "ArenaThread"}
    THEN Len(agents[a]) + Len(games[a])
    ELSE Len(arenas[a])

\* An envelope (sender, message); id tells apart the message objects put into
\* one mailbox (the n-th put into it).
Envelope(sender, kind, id) == [sender |-> sender, kind |-> kind, id |-> id]

NoEnvelope == [sender |-> None, kind |-> None, id |-> 0]

\* Queue.put((sender, message)) on the mailbox of `to`.
QueuePut(to, sender, kind) ==
    LET env == Envelope(sender, kind, Len(enqueued[to]) + 1)
    IN  /\ mailbox' = [mailbox EXCEPT ![to] = Append(@, env)]
        /\ enqueued' = [enqueued EXCEPT ![to] = Append(@, env)]

\* The senders whose puts the model enumerates in each program.
PutSenders ==
    CASE scenario = "thread" -> {Main}
      [] scenario = "basic" -> BasicActors
      [] scenario = "core" -> {Main}
      [] OTHER -> {}

\* A thread other than the owner puts an envelope into a mailbox.
Put(s, a, k) ==
    /\ scenario \in {"thread", "basic", "core"}
    /\ s \in PutSenders
    /\ InPlay(a)
    /\ nputs < MaxPuts
    /\ QueuePut(a, s, k)
    /\ nputs' = nputs + 1
    /\ UNCHANGED <<scenario, pc, error, current, agents, games, registryType,
                   iter, receiveImpl, publishImpl, message_handlers,
                   invoked, delivered, overfull, arenas, constructed,
                   lastCall, ncalls, accepted, raised, nreplies,
                   episodes, requested, di_used, nregs, atCatch>>

\* A loop that goes on to the get without the test of empty().
Check_NoTest(a) ==
    /\ a \in ThreadActors \cup BasicActors
    /\ pc[a] = "check"
    /\ pc' = [pc EXCEPT ![a] = "get"]
    /\ UNCHANGED <<scenario, error, mailbox, current, agents, games,
                   registryType, iter, receiveImpl, publishImpl,
                   message_handlers, invoked, enqueued, delivered,
                   overfull, accepted, raised, nreplies, nputs, arenas,
                   constructed, lastCall, ncalls, episodes, requested,
                   di_used, nregs, atCatch>>

\* if not self.mailbox.empty(): (thread classes and BasicActor; a preemptive
\* thread may be descheduled between this test and the get).
Check(a) ==
    /\ a \in ThreadActors \cup BasicActors
    /\ pc[a] = "check"
    /\ mailbox[a] # <<>>
    /\ pc' = [pc EXCEPT ![a] = "get"]
    /\ UNCHANGED <<scenario, error, mailbox, current, agents, games,
                   registryType, iter, receiveImpl, publishImpl,
                   message_handlers, invoked, enqueued, delivered,
                   overfull, accepted, raised, nreplies, nputs, arenas,
                   constructed, lastCall, ncalls,
                   episodes, requested, di_used, nregs, atCatch>>

\* A queue that hands out the newest envelope first.
QueueGet_Lifo(q) == [item |-> q[Len(q)], rest |-> SubSeq(q, 1, Len(q) - 1)]

\* A get that leaves the envelope in the queue.
QueueGet_Peek(q) == [item |-> Head(q), rest |-> q]

\* The envelope Queue.get() returns and what it leaves in the queue.
QueueGet(q) == [item |-> Head(q), rest |-> Tail(q)]

\* sender, message = self.mailbox.get(): blocks while the queue is empty.
GetEnvelope(a) ==
    /\ a \in ThreadActors \cup BasicActors
    /\ pc[a] = "get"
    /\ mailbox[a] # <<>>
    /\ LET got == QueueGet(mailbox[a])
       IN  /\ current' = [current EXCEPT ![a] = got.item]
           /\ mailbox' = [mailbox EXCEPT ![a] = got.rest]
           /\ delivered' = [delivered EXCEPT ![a] = Append(@, got.item)]
    /\ overfull' = [overfull EXCEPT ![a] = @ \/ (Len(mailbox[a]) > Expected(a))]
    /\ pc' = [pc EXCEPT ![a] = "handle"]
    /\ UNCHANGED <<scenario, error, agents, games, registryType, iter,
                   receiveImpl, publishImpl, message_handlers, invoked,
                   enqueued, nputs, arenas, constructed, lastCall,
                   ncalls, accepted, raised, nreplies,
                   episodes, requested, di_used, nregs, atCatch>>

\* One turn of the while loop of Arena.live / Agent.live / Game.live in
\* core.py up to the get: the emptiness test, the overflow assertion and the
\* get run without a switch of greenlet between them.
CoreGet(a) ==
    /\ a \in CoreActors
    /\ pc[a] = "check"
    /\ mailbox[a] # <<>>
    /\ IF ChecksOverflow(ClassOf(a)) /\ Len(mailbox[a]) > Expected(a)
       THEN /\ pc' = [pc EXCEPT ![a] = "crashed"]
            /\ error' = [error EXCEPT ![a] = "AssertionError"]
            /\ UNCHANGED <<mailbox, current, delivered, overfull>>
       ELSE /\ LET got == QueueGet(mailbox[a])
               IN  /\ current' = [current EXCEPT ![a] = got.item]
                   /\ mailbox' = [mailbox EXCEPT ![a] = got.rest]
                   /\ delivered' = [delivered EXCEPT ![a] = Append(@, got.item)]
            /\ overfull' = [overfull EXCEPT ![a] = @ \/ (Len(mailbox[a]) > Expected(a))]
            /\ pc' = [pc EXCEPT ![a] = "handle"]
            /\ UNCHANGED error
    /\ UNCHANGED <<scenario, agents, games, registryType, iter, receiveImpl,
                   publishImpl, message_handlers, invoked, enqueued,
                   nputs, arenas, constructed, lastCall, ncalls,
                   accepted, raised, nreplies,
                   episodes, requested, di_used, nregs, atCatch>>

\* The number of envelopes the actors of S have taken from their mailboxes.
RECURSIVE TakenBy(_)
TakenBy(S) ==
    IF S = {} THEN 0
    ELSE LET b == CHOOSE x \in S : TRUE
         IN  Len(delivered[b]) + TakenBy(S \ {b})

\* self.receive(sender, message) in the thread classes, or
\* self.receive(message) in core.py, and the way live() continues.
Dispatch(a) ==
    /\ a \in ThreadActors \cup CoreActors
    /\ pc[a] = "handle"
    /\ LET env == current[a]
           outcome == receive(a, env.sender, env)
           next == LiveAfter(ClassOf(a), outcome)
       IN  /\ pc' = [pc EXCEPT ![a] = next]
           /\ error' = [error EXCEPT ![a] = IF next = "crashed" THEN outcome ELSE @]
           /\ raised' = [raised EXCEPT ![a] = IF outcome = "return" THEN None ELSE outcome]
           /\ accepted' = [accepted EXCEPT ![a] = outcome = PoisonPill /\ next # "crashed"]
           /\ invoked' = [invoked EXCEPT ![a] =
                            IF receiveImpl = "handleMessage"
                            THEN handleMessage(a, env.sender, env) ELSE @]
    /\ current' = [current EXCEPT ![a] = NoEnvelope]
    /\ iter' = [iter EXCEPT ![a] = 0]
    /\ UNCHANGED <<scenario, mailbox, agents, games, registryType, receiveImpl,
                   publishImpl, message_handlers, enqueued, delivered, overfull,
                   nreplies, nputs, arenas, constructed, lastCall, ncalls,
                   episodes, requested, di_used, nregs, atCatch>>

\* A test that compares the type of the message with type(PoisonPill), the
\* metaclass, which no message has: the pill is answered like any message.
BasicOutcome_NeverPill(kind) == "return"

\* A test that holds for every message: whatever is taken is raised.
BasicOutcome_AlwaysPill(kind) == PoisonPill

\* if type(message) == type(PoisonPill()): raise message
BasicOutcome(kind) == IF kind = PoisonPill THEN PoisonPill ELSE "return"

\* BasicActor.live after the get: a pill is raised and caught, anything else
\* is answered with one envelope to its sender.
BasicHandle(a) ==
    /\ a \in BasicActors
    /\ pc[a] = "handle"
    /\ LET env == current[a]
           outcome == BasicOutcome(env.kind)
           next == LiveAfter(ClassOf(a), outcome)
       IN  /\ pc' = [pc EXCEPT ![a] = next]
           /\ error' = [error EXCEPT ![a] = IF next = "crashed" THEN outcome ELSE @]
           /\ raised' = [raised EXCEPT ![a] = IF outcome = "return" THEN None ELSE outcome]
           /\ accepted' = [accepted EXCEPT ![a] = outcome = PoisonPill /\ next # "crashed"]
           /\ atCatch' = [atCatch EXCEPT ![a] =
                            IF outcome = PoisonPill /\ next # "crashed"
                            THEN TakenBy(BasicActors) ELSE @]
           /\ IF outcome = PoisonPill
              THEN UNCHANGED <<mailbox, enqueued, nreplies>>
              ELSE /\ nreplies < MaxReplies
                   /\ InPlay(env.sender)
                   /\ QueuePut(env.sender, a, "Data")
                   /\ nreplies' = nreplies + 1
    /\ current' = [current EXCEPT ![a] = NoEnvelope]
    /\ UNCHANGED <<scenario, agents, games, registryType, iter, receiveImpl,
                   publishImpl, message_handlers, invoked, delivered, overfull, nputs,
                   arenas, constructed, lastCall, ncalls,
                   episodes, requested, di_used, nregs>>

\* Arena.publish(agent, self, PoisonPill()) -> self._publish(agent, *args):
\* raises unless the domain supplies the hook, which then puts the envelope.
publish(self, target) ==
    IF publishImpl = "unimplemented"
    THEN /\ pc' = [pc EXCEPT ![self] = "crashed"]
         /\ error' = [error EXCEPT ![self] = "NotImplementedError"]
         /\ UNCHANGED <<mailbox, enqueued, iter>>
    ELSE /\ QueuePut(target, self, PoisonPill)
              /\ iter' = [iter EXCEPT ![self] = @ + 1]
         /\ UNCHANGED <<pc, error>>

\* One step of a loop `for name, x in registry.iteritems(): self.publish(...)`
\* of the except block; `after` is where live() continues after the loop.
\* A list has no iteritems.  A dict iterator records the size of the dict
\* when it is made (here together with its first step) and raises
\* RuntimeError from any later step that finds another size, the step that
\* would end the loop included.
ExceptLoop(a, registry, type, after) ==
    IF type # "dict"
    THEN /\ pc' = [pc EXCEPT ![a] = "crashed"]
         /\ error' = [error EXCEPT ![a] = "AttributeError"]
         /\ UNCHANGED <<mailbox, enqueued, iter, di_used>>
    ELSE IF iter[a] > 0 /\ Len(registry) # di_used[a]
         THEN /\ pc' = [pc EXCEPT ![a] = "crashed"]
              /\ error' = [error EXCEPT ![a] = "RuntimeError"]
              /\ UNCHANGED <<mailbox, enqueued, iter, di_used>>
         ELSE IF iter[a] < Len(registry)
              THEN /\ publish(a, registry[iter[a] + 1])
                   /\ di_used' = [di_used EXCEPT ![a] = Len(registry)]
              ELSE /\ pc' = [pc EXCEPT ![a] = after]
                   /\ iter' = [iter EXCEPT ![a] = 0]
                   /\ UNCHANGED <<mailbox, enqueued, error, di_used>>

\* except PoisonPill: for name, agent in self.agents.iteritems(): ...
ExceptAgents(a) ==
    /\ a \in ThreadActors
    /\ pc[a] = "exceptAgents"
    /\ ExceptLoop(a, agents[a], registryType[a].agents, "exceptGames")
    /\ UNCHANGED <<scenario, current, agents, games, registryType,
                   receiveImpl, publishImpl, message_handlers, invoked,
                   delivered, overfull, nputs, arenas, constructed,
                   lastCall, ncalls, accepted, raised, nreplies,
                   episodes, requested, nregs, atCatch>>

\* ... for name, game in self.games.iteritems(): ...; then live() returns.
ExceptGames(a) ==
    /\ a \in ThreadActors
    /\ pc[a] = "exceptGames"
    /\ ExceptLoop(a, games[a], registryType[a].games, "terminated")
    /\ UNCHANGED <<scenario, current, agents, games, registryType,
                   receiveImpl, publishImpl, message_handlers, invoked,
                   delivered, overfull, nputs, arenas, constructed,
                   lastCall, ncalls, accepted, raised, nreplies,
                   episodes, requested, nregs, atCatch>>

\* A _register that rebinds the registry to the new agent alone.
RegisterHook_Rebind(registry, agent, overridden) ==
    IF overridden THEN <<agent>> ELSE registry

\* The agents of an arena after self._register(agent): the default hook
\* raises before it touches them, an override adds the agent at the end.
RegisterHook(registry, agent, overridden) ==
    IF overridden THEN Append(registry, agent) ELSE registry

\* arena.register(agent), called by a thread other than the arena's own, of
\* a domain whose _register puts the agent into the dict self.agents under
\* its name; for a name the dict holds already the size stays as it is.
ConcurrentRegister(arena, agent) ==
    /\ scenario = "thread"
    /\ arena \in ArenaThreads /\ InPlay(arena)
    /\ agent \in AgentThreads /\ InPlay(agent)
    /\ registryType[arena].agents = "dict"
    /\ agent \notin {agents[arena][i] : i \in DOMAIN agents[arena]}
    /\ nregs < MaxRegisters
    /\ agents' = [agents EXCEPT ![arena] = RegisterHook(@, agent, TRUE)]
    /\ nregs' = nregs + 1
    /\ UNCHANGED <<scenario, pc, error, mailbox, current, games, registryType,
                   iter, receiveImpl, publishImpl, message_handlers, invoked,
                   enqueued, delivered, overfull, accepted, raised, nreplies,
                   nputs, arenas, constructed, lastCall, ncalls, episodes,
                   requested, di_used, atCatch>>

\* ------------------------------------------------------------------------
\* Initial states: the actors after construction and spawn
\* ------------------------------------------------------------------------
NoCall == [class |-> None, self |-> None, method |-> None, overridden |-> FALSE,
           value |-> None, result |-> None]

NotConstructed == [outcome |-> "no", arena_array |-> <<>>, agent_array |-> <<>>]

\* The containers the registries can be: Arena.__init__ makes both lists,
\* Game.__init__ appends to games (a list), ArenaThread.live iterates both
\* with iteritems (dicts).
Lists == [agents |-> "list", games |-> "list"]
DictAndList == [agents |-> "dict", games |-> "list"]
Dicts == [agents |-> "dict", games |-> "dict"]

\* The base handlers re-registered on a subclass together with a handler
\* for the payload.
DomainRegistry(onData) == RegistryCall(ThreadActorRegistry, "Data", onData)

DomainConfig(r, h, t, p) == [receive |-> r, registry |-> h, types |-> t, publish |-> p]

\* The domain that supplies everything the propagation of pills needs.
FullDomain == DomainConfig("handleMessage", DomainRegistry("onData"), Dicts, "put")

\* What the domain has supplied: nothing (the source as it is), _receive
\* as a call of handleMessage with the registries of the source, or also
\* handlers, dict registries and _publish as a put into the mailbox.
DomainConfigs ==
    { DomainConfig("unimplemented", EmptyRegistry, Lists, "unimplemented"),
      DomainConfig("handleMessage", EmptyRegistry, Lists, "unimplemented"),
      DomainConfig("handleMessage", DomainRegistry("onData"), Lists, "unimplemented"),
      DomainConfig("handleMessage", DomainRegistry("onData"), Lists, "put"),
      DomainConfig("handleMessage", DomainRegistry("onData"), DictAndList, "put"),
      DomainConfig("handleMessage", DomainRegistry("onData"), Dicts, "unimplemented"),
      FullDomain,
      DomainConfig("handleMessage", DomainRegistry("onFail"), Dicts, "put") }

\* Which thread actors exist and what the arenas' registries hold.
Wiring(p, ag, gm) == [inPlay |-> p, agents |-> ag, games |-> gm]

OneArena ==
    { Wiring({"A1", "a1", "a2"}, <<>>, <<>>),
      Wiring({"A1", "a1", "a2"}, <<"a1", "a2">>, <<>>),
      Wiring({"A1", "a1", "a2", "g1"}, <<"a1", "a2">>, <<"g1">>) }

\* Two arenas that share an agent and a game.
TwoArenas == Wiring({"A1", "A2", "a1", "g1"}, <<"a1">>, <<"g1">>)

\* An arena with one agent registered and another one still to register.
OneToRegister == Wiring({"A1", "a1", "a2"}, <<"a1">>, <<>>)

\* The programs of thread actors the model runs.
ThreadPrograms ==
    { [wiring |-> w, domain |-> d] : w \in OneArena, d \in DomainConfigs }
        \cup { [wiring |-> TwoArenas, domain |-> FullDomain],
               [wiring |-> OneToRegister, domain |-> FullDomain] }

\* Parts of the state the actor programs do not use.
ApiIdle ==
    /\ constructed = [g \in GameThreads \cup CoreGames |-> NotConstructed]
    /\ lastCall = NoCall
    /\ ncalls = 0
    /\ episodes = [g \in GameThreads \cup CoreGames |-> 0]
    /\ requested = [g \in GameThreads \cup CoreGames |-> 0]

ActorsIdle(inPlay) ==
    /\ pc = [a \in Actors |-> IF a \in inPlay THEN "check" ELSE "absent"]
    /\ error = [a \in Actors |-> None]
    /\ mailbox = [a \in Actors |-> <<>>]
    /\ current = [a \in Actors |-> NoEnvelope]
    /\ iter = [a \in Actors |-> 0]
    /\ invoked = [a \in Actors |-> <<>>]
    /\ nputs = 0
    /\ enqueued = [a \in Actors |-> <<>>]
    /\ delivered = [a \in Actors |-> <<>>]
    /\ overfull = [a \in Actors |-> FALSE]
    /\ accepted = [a \in Actors |-> FALSE]
    /\ raised = [a \in Actors |-> None]
    /\ nreplies = 0
    /\ di_used = [a \in Actors |-> 0]
    /\ nregs = 0
    /\ atCatch = [a \in Actors |-> 0]

\* ArenaThreads, AgentThreads and a GameThread of a domain that may have
\* supplied _receive, _publish, handlers and dict registries.
InitThread ==
    /\ scenario = "thread"
    /\ \E prog \in ThreadPrograms :
          LET w == prog.wiring
              d == prog.domain
          IN  /\ ActorsIdle(w.inPlay)
              /\ agents = [a \in Actors |->
                              IF a \in ArenaThreads \cup GameThreads THEN w.agents ELSE <<>>]
              /\ games = [a \in Actors |-> IF a \in ArenaThreads THEN w.games ELSE <<>>]
              /\ receiveImpl = d.receive
              /\ message_handlers =
                    [c \in ThreadClasses |->
                        IF c = "ThreadActor" THEN ThreadActorRegistry ELSE d.registry]
              /\ registryType = [a \in Actors |-> d.types]
              /\ publishImpl = d.publish
    /\ arenas = [a \in Actors |-> <<>>]
    /\ ApiIdle

\* The script of tests/threading_tests.py after both spawns.
InitBasic ==
    /\ scenario = "basic"
    /\ ActorsIdle(BasicActors)
    /\ agents = [a \in Actors |-> <<>>]
    /\ games = [a \in Actors |-> <<>>]
    /\ arenas = [a \in Actors |-> <<>>]
    /\ registryType = [a \in Actors |-> [agents |-> "list", games |-> "list"]]
    /\ publishImpl = "unimplemented"
    /\ receiveImpl = "unimplemented"
    /\ message_handlers = SourceRegistries
    /\ ApiIdle

\* The gevent classes of core.py with their live() loops running.
InitCore ==
    /\ scenario = "core"
    /\ ActorsIdle(CoreActors)
    /\ \E ag \in {<<>>, <<"cAg">>}, gm \in {<<>>, <<"cG">>} :
          /\ agents = [a \in Actors |-> IF a \in CoreArenas THEN ag ELSE <<>>]
          /\ games = [a \in Actors |-> IF a \in CoreArenas THEN gm ELSE <<>>]
    /\ \E ar \in {<<>>, <<"cA">>} :
          arenas = [a \in Actors |-> IF a \in CoreAgents THEN ar ELSE <<>>]
    /\ registryType = [a \in Actors |-> [agents |-> "list", games |-> "list"]]
    /\ publishImpl = "unimplemented"
    /\ receiveImpl \in {"unimplemented", "returns"}
    /\ message_handlers = SourceRegistries
    /\ ApiIdle

Init == InitThread \/ InitBasic \/ InitCore

Next ==
    \/ \E s \in PutSenders, a \in Actors, k \in SentKinds : Put(s, a, k)
    \/ \E a \in Actors : Check(a)
    \/ \E a \in Actors : GetEnvelope(a)
    \/ \E a \in Actors : CoreGet(a)
    \/ \E a \in Actors : Dispatch(a)
    \/ \E a \in Actors : BasicHandle(a)
    \/ \E a \in Actors : ExceptAgents(a)
    \/ \E a \in Actors : ExceptGames(a)
    \/ \E arena \in ArenaThreads, agent \in AgentThreads : ConcurrentRegister(arena, agent)

Spec == Init /\ [][Next]_vars

\* ------------------------------------------------------------------------
\* Construction of a Game and the pass-through methods
\* ------------------------------------------------------------------------
\* arena.games.append(self) for the first n arenas of arena_array.
RECURSIVE AppendGame(_, _, _, _)
AppendGame(gms, arena_array, g, n) ==
    IF n = 0 \/ arena_array = <<>>
    THEN gms
    ELSE AppendGame([gms EXCEPT ![Head(arena_array)] = Append(@, g)],
                    Tail(arena_array), g, n - 1)

\* Game.__init__(self, arena_array, agent_array): in the first turn of the
\* loop over the arenas the game is appended to arena.games, then the inner
\* loop evaluates self.arena, an attribute no Game has (self.arenas is set).
GameInit(g, arena_array, agent_array) ==
    LET fails == arena_array # <<>> /\ agent_array # <<>>
        turns == IF fails THEN 1 ELSE Len(arena_array)
    IN  [outcome |-> IF fails THEN "AttributeError" ELSE "ok",
         games |-> AppendGame(games, arena_array, g, turns)]

\* Game(arena_array, agent_array) of core.py.
ConstructGame(g, arena_array, agent_array) ==
    /\ scenario = "api"
    /\ g \in CoreGames
    /\ constructed[g].outcome = "no"
    /\ ncalls < MaxCalls
    /\ LET r == GameInit(g, arena_array, agent_array)
       IN  /\ games' = r.games
           /\ constructed' = [constructed EXCEPT ![g] =
                 [outcome |-> r.outcome, arena_array |-> arena_array,
                  agent_array |-> agent_array]]
    /\ arenas' = [arenas EXCEPT ![g] = arena_array]
    /\ agents' = [agents EXCEPT ![g] = agent_array]
    /\ ncalls' = ncalls + 1
    /\ UNCHANGED <<scenario, pc, error, mailbox, current, registryType, iter,
                   receiveImpl, publishImpl, message_handlers, invoked,
                   enqueued, delivered, overfull, nputs, lastCall,
                   accepted, raised, nreplies,
                   episodes, requested, di_used, nregs, atCatch>>

\* GameThread(name, arena_array, agent_array): calls
\* Game.__init__(self, name, arena_array, agent_array), one argument more
\* than Game.__init__ takes, so nothing of either __init__ runs.
ConstructGameThread(g, arena_array, agent_array) ==
    /\ scenario = "api"
    /\ g \in GameThreads
    /\ constructed[g].outcome = "no"
    /\ ncalls < MaxCalls
    /\ constructed' = [constructed EXCEPT ![g] =
          [outcome |-> "TypeError", arena_array |-> arena_array,
           agent_array |-> agent_array]]
    /\ ncalls' = ncalls + 1
    /\ UNCHANGED <<scenario, pc, error, mailbox, current, agents, games,
                   registryType, iter, receiveImpl, publishImpl,
                   message_handlers, invoked, enqueued, delivered,
                   overfull, nputs, arenas, lastCall, accepted, raised,
                   nreplies,
                   episodes, requested, di_used, nregs, atCatch>>

\* The user-facing methods of the three contracts.
ArenaMethods == {"start", "reset", "close", "register", "receive", "prime", "step",
                 "publish", "seed"}
AgentMethods == {"receive", "learn", "perceive", "policy", "publish"}
GameMethods == {"receive", "publish", "reset_condition"}

ContractOf(class) ==
    CASE class \in {"Arena", "ArenaThread"} -> "Arena"
      [] class \in {"Agent", "AgentThread"} -> "Agent"
      [] class \in {"Game", "GameThread"} -> "Game"

MethodsOf(class) ==
    CASE ContractOf(class) = "Arena" -> ArenaMethods
      [] ContractOf(class) = "Agent" -> AgentMethods
      [] ContractOf(class) = "Game" -> GameMethods

\* Does the method call its hook (self._<method>)?  Game.publish has a
\* docstring and no statement.
CallsHook(class, method) == ~(ContractOf(class) = "Game" /\ method = "publish")

\* Does the method return what its hook returns?  Only Game.reset_condition
\* has a return statement.
ReturnsHookValue(class, method) ==
    ContractOf(class) = "Game" /\ method = "reset_condition"

\* The result of calling a pass-through method; the hook is the default
\* (raise NotImplementedError) or an override that returns `value`.
PassThrough(class, method, overridden, value) ==
    IF CallsHook(class, method) /\ ~overridden THEN "NotImplementedError"
    ELSE IF CallsHook(class, method) /\ ReturnsHookValue(class, method) THEN value
    ELSE None

\* Values a domain hook returns.
HookValues == {"TRUE", "FALSE"}

ContractClasses == {"Arena", "Agent", "Game", "ArenaThread", "AgentThread", "GameThread"}

\* A call of a pass-through method other than Arena.register.
Call(class, method, overridden, value) ==
    /\ scenario = "api"
    /\ method \in MethodsOf(class)
    /\ ~(ContractOf(class) = "Arena" /\ method = "register")
    /\ overridden \/ value = "TRUE"
    /\ ncalls < MaxCalls
    /\ lastCall' = [class |-> class, self |-> None, method |-> method,
                    overridden |-> overridden, value |-> value,
                    result |-> PassThrough(class, method, overridden, value)]
    /\ ncalls' = ncalls + 1
    /\ UNCHANGED <<scenario, pc, error, mailbox, current, agents, games,
                   registryType, iter, receiveImpl, publishImpl,
                   message_handlers, invoked, enqueued, delivered,
                   overfull, nputs, arenas, constructed, accepted,
                   raised, nreplies,
                   episodes, requested, di_used, nregs, atCatch>>

\* arena.register(agent) -> self._register(agent); an override adds the
\* agent to the arena's agents, as the docstring of register suggests.
CallRegister(arena, agent, overridden) ==
    /\ scenario = "api"
    /\ arena \in ArenaThreads
    /\ agent \in AgentThreads
    /\ ncalls < MaxCalls
    /\ lastCall' = [class |-> ClassOf(arena), self |-> arena, method |-> "register",
                    overridden |-> overridden, value |-> agent,
                    result |-> PassThrough(ClassOf(arena), "register", overridden, None)]
    /\ agents' = [agents EXCEPT ![arena] = RegisterHook(@, agent, overridden)]
    /\ ncalls' = ncalls + 1
    /\ UNCHANGED <<scenario, pc, error, mailbox, current, games, registryType,
                   iter, receiveImpl, publishImpl, message_handlers,
                   invoked, enqueued, delivered, overfull, nputs,
                   arenas, constructed, accepted, raised, nreplies,
                   episodes, requested, di_used, nregs, atCatch>>

\* game.run(n): self.live() is called in the caller's own thread of control
\* and loops for ever, so the statement after it is never reached and run
\* does not return; nothing assigns self.episodes.
run(self, n) ==
    /\ scenario = "api"
    /\ self \in CoreGames
    /\ constructed[self].outcome = "ok"
    /\ requested[self] = 0
    /\ ncalls < MaxCalls
    /\ requested' = [requested EXCEPT ![self] = n]
    /\ pc' = [pc EXCEPT ![self] = "check"]
    /\ lastCall' = [class |-> ClassOf(self), self |-> self, method |-> "run",
                    overridden |-> FALSE, value |-> None, result |-> "blocked"]
    /\ ncalls' = ncalls + 1
    /\ UNCHANGED <<scenario, error, mailbox, current, agents, games,
                   registryType, iter, receiveImpl, publishImpl,
                   message_handlers, invoked, enqueued, delivered,
                   overfull, nputs, arenas, constructed, accepted,
                   raised, nreplies, episodes, di_used, nregs, atCatch>>

\* Arenas and agents constructed, no game yet.
InitApi ==
    /\ scenario = "api"
    /\ ActorsIdle(ArenaThreads \cup AgentThreads)
    /\ agents = [a \in Actors |-> <<>>]
    /\ games = [a \in Actors |-> <<>>]
    /\ arenas = [a \in Actors |-> <<>>]
    /\ registryType = [a \in Actors |-> Lists]
    /\ publishImpl = "unimplemented"
    /\ receiveImpl = "unimplemented"
    /\ message_handlers = SourceRegistries
    /\ ApiIdle

\* Lists of distinct actors of a set, of at most two elements.
ArraysOf(S) ==
    {<<>>} \cup {<<x>> : x \in S} \cup {p \in S \X S : p[1] # p[2]}

NextApi ==
    \/ \E g \in CoreGames, ar \in ArraysOf(ArenaThreads), ag \in ArraysOf(AgentThreads) :
          ConstructGame(g, ar, ag)
    \/ \E g \in GameThreads, ar \in ArraysOf(ArenaThreads), ag \in ArraysOf(AgentThreads) :
          ConstructGameThread(g, ar, ag)
    \/ \E c \in ContractClasses : \E m \in MethodsOf(c), o \in BOOLEAN, v \in HookValues :
          Call(c, m, o, v)
    \/ \E arena \in ArenaThreads, agent \in AgentThreads, o \in BOOLEAN :
          CallRegister(arena, agent, o)
    \/ \E g \in CoreGames, n \in 1..MaxEpisodes : run(g, n)

SpecApi == InitApi /\ [][NextApi]_vars

\* ------------------------------------------------------------------------
\* Registration of handlers and dispatch
\* ------------------------------------------------------------------------
\* @message_handlers(typ) applied to func in the body of a class.
Register(class, typ, func) ==
    /\ scenario = "dispatch"
    /\ lastCall = NoCall
    /\ ncalls < MaxDispatch
    /\ message_handlers' = [message_handlers EXCEPT ![class] = RegistryCall(@, typ, func)]
    /\ ncalls' = ncalls + 1
    /\ UNCHANGED <<scenario, pc, error, mailbox, current, agents, games,
                   registryType, iter, receiveImpl, publishImpl,
                   invoked, enqueued, delivered, overfull, nputs,
                   arenas, constructed, lastCall, accepted, raised,
                   nreplies,
                   episodes, requested, di_used, nregs, atCatch>>

\* self.handleMessage(sender, message) on an instance of a thread class.
CallHandleMessage(self, sender, kind) ==
    /\ scenario = "dispatch"
    /\ InPlay(self)
    /\ LET message == Envelope(sender, kind, 1)
           calls == handleMessage(self, sender, message)
       IN  /\ invoked' = [invoked EXCEPT ![self] = calls]
           /\ lastCall' = [class |-> ClassOf(self), self |-> self,
                           method |-> "handleMessage",
                           overridden |-> FALSE, value |-> message,
                           result |-> IF calls = <<>> THEN None
                                      ELSE HandlerOutcome(calls[1].handler, kind)]
    /\ UNCHANGED <<scenario, pc, error, mailbox, current, agents, games,
                   registryType, iter, receiveImpl, publishImpl,
                   message_handlers, enqueued, delivered, overfull,
                   nputs, arenas, constructed, ncalls, accepted,
                   raised, nreplies,
                   episodes, requested, di_used, nregs, atCatch>>

\* The classes as the source defines them, an arena and two agents.
InitDispatch ==
    /\ scenario = "dispatch"
    /\ ActorsIdle({"A1", "a1", "a2"})
    /\ agents = [a \in Actors |-> <<>>]
    /\ games = [a \in Actors |-> <<>>]
    /\ arenas = [a \in Actors |-> <<>>]
    /\ registryType = [a \in Actors |-> Lists]
    /\ publishImpl = "unimplemented"
    /\ receiveImpl = "handleMessage"
    /\ message_handlers = SourceRegistries
    /\ ApiIdle

NextDispatch ==
    \/ \E c \in {"ArenaThread", "AgentThread"}, k \in Kinds, h \in Handlers :
          Register(c, k, h)
    \/ \E a \in Actors, k \in Kinds : CallHandleMessage(a, Main, k)

SpecDispatch == InitDispatch /\ [][NextDispatch]_vars

\* ------------------------------------------------------------------------
\* The two BasicActors alone, each thread scheduled again and again
\* ------------------------------------------------------------------------
\* One step of the thread that runs live() of a BasicActor.
BasicStep(a) == Check(a) \/ GetEnvelope(a) \/ BasicHandle(a)

NextPingPong ==
    \/ \E s \in BasicActors, a \in BasicActors, k \in SentKinds : Put(s, a, k)
    \/ \E a \in BasicActors : Check(a)
    \/ \E a \in BasicActors : GetEnvelope(a)
    \/ \E a \in BasicActors : BasicHandle(a)

\* start_thread gives every BasicActor a thread of its own; a thread that
\* can take a step is scheduled sooner or later.
SpecPingPong ==
    /\ InitBasic
    /\ [][NextPingPong]_vars
    /\ \A a \in BasicActors : WF_vars(BasicStep(a))

\* ------------------------------------------------------------------------
\* Every program of the model: the live loops, and construction and calls
\* ------------------------------------------------------------------------
InitSubstrate == Init \/ InitApi

NextSubstrate == Next \/ NextApi

SpecSubstrate == InitSubstrate /\ [][NextSubstrate]_vars

\* ------------------------------------------------------------------------
\* Properties
\* ------------------------------------------------------------------------
Elems(seq) == {seq[i] : i \in DOMAIN seq}

IsPrefix(p, q) == Len(p) <= Len(q) /\ SubSeq(q, 1, Len(p)) = p

\* The PoisonPills `from` has put into the mailbox of `to`.
PillsFrom(from, to) ==
    Cardinality({i \in DOMAIN enqueued[to] :
                    enqueued[to][i].kind = PoisonPill /\ enqueued[to][i].sender = from})

Leaves == AgentThreads \cup GameThreads

\* C1: once an ArenaThread has caught a PoisonPill and is through with its
\* except block, it is Terminated and has put exactly one PoisonPill, with
\* itself as sender, into the mailbox of every registered agent and game.
C1_PillPropagated ==
    \A a \in ArenaThreads :
        (accepted[a] /\ ~Terminating(a)) =>
            /\ Terminated(a)
            /\ \A t \in Elems(agents[a]) \cup Elems(games[a]) : PillsFrom(a, t) = 1

\* C2: an actor that has caught a PoisonPill never again takes an envelope
\* from its mailbox or dispatches one, is not Running again, and Terminated
\* is absorbing.
C2_NoWorkAfterPill ==
    [][\A a \in Actors :
          /\ accepted[a] =>
                /\ accepted'[a]
                /\ ~Running(a)'
                /\ delivered'[a] = delivered[a]
                /\ invoked'[a] = invoked[a]
                /\ current'[a] = NoEnvelope
          /\ Terminated(a) => Terminated(a)']_vars

C2_Witness ==
    \E a \in ThreadActors : accepted[a] /\ Terminated(a) /\ mailbox[a] # <<>>

\* C3: the envelopes a receive loop has taken are, in order, the first
\* envelopes put into its mailbox, whoever put them; a caught pill is the
\* last envelope taken, so all that was put before it was taken before it.
C3_Fifo ==
    \A a \in Actors :
        /\ IsPrefix(delivered[a], enqueued[a])
        /\ accepted[a] =>
              /\ delivered[a] # <<>>
              /\ delivered[a][Len(delivered[a])].kind = PoisonPill

C3_Witness ==
    \E a \in Actors :
        /\ accepted[a]
        /\ Len(delivered[a]) >= 2
        /\ delivered[a][1].sender # delivered[a][2].sender

\* C4: every envelope put into a mailbox is either still pending or was
\* returned by exactly one get: the envelopes put are those taken followed
\* by those pending, and no envelope was taken twice.
C4_NoLossNoDuplication ==
    \A a \in Actors :
        /\ enqueued[a] = delivered[a] \o mailbox[a]
        /\ \A i, j \in DOMAIN delivered[a] : delivered[a][i] = delivered[a][j] => i = j

C4_Witness ==
    \E a \in Actors : Len(delivered[a]) >= 2 /\ mailbox[a] # <<>>

\* C5: handleMessage calls exactly one handler with (self, sender, message):
\* the one registered for the kind of the message if there is one, otherwise
\* the one registered under UnregisteredMessage; with neither it calls none.
C5_DispatchResolution ==
    lastCall.method = "handleMessage" =>
        LET self == lastCall.self
            message == lastCall.value
            registry == message_handlers[lastCall.class]
            CallOf(h) == <<[handler |-> h, self |-> self, sender |-> message.sender,
                            message |-> message]>>
        IN  IF message.kind \in DOMAIN registry
            THEN invoked[self] = CallOf(registry[message.kind])
            ELSE IF UnregisteredMessage \in DOMAIN registry
                 THEN invoked[self] = CallOf(registry[UnregisteredMessage])
                 ELSE invoked[self] = <<>> /\ lastCall.result = None

C5_Witness ==
    /\ lastCall.method = "handleMessage"
    /\ LET registry == message_handlers[lastCall.class]
       IN  /\ lastCall.value.kind \notin DOMAIN registry
           /\ UnregisteredMessage \in DOMAIN registry
           /\ Cardinality(DOMAIN registry) >= 2
           /\ registry[UnregisteredMessage] \notin
                 {registry[k] : k \in DOMAIN registry \ {UnregisteredMessage}}
           /\ invoked[lastCall.self] # <<>>

\* C6: an Arena never takes an envelope from its mailbox while more
\* envelopes are pending than it has agents and games registered, and an
\* Agent never while more are pending than it has arenas: the overflow error
\* is raised instead.
C6_OverflowDetected ==
    \A a \in ArenaThreads \cup AgentThreads \cup CoreArenas \cup CoreAgents : ~overfull[a]

\* C7: when the dispatch of an envelope raises anything but PoisonPill, the
\* error leaves live(): the actor has crashed with that error, has not
\* caught a pill, and from then on takes and dispatches no envelope; live()
\* catches nothing but PoisonPill.
C7_HandlerFailureFatal ==
    [][\A a \in Actors :
          /\ raised'[a] \notin {None, PoisonPill} =>
                Crashed(a)' /\ error'[a] = raised'[a] /\ ~accepted'[a]
          /\ Crashed(a) =>
                /\ Crashed(a)'
                /\ delivered'[a] = delivered[a]
                /\ invoked'[a] = invoked[a]
                /\ raised'[a] = raised[a]
          /\ accepted'[a] => raised'[a] = PoisonPill]_vars

C7_Witness ==
    \E a \in ThreadActors :
        /\ Crashed(a) /\ raised[a] = "NotImplementedError" /\ mailbox[a] # <<>>
        /\ delivered[a][Len(delivered[a])].kind # PoisonPill

\* C8: after the construction of a Game over arena_array and agent_array,
\* every agent of agent_array is in the agents of every arena of
\* arena_array, and the game is in the games of every one of these arenas.
C8_RegistrationWiring ==
    \A g \in DOMAIN constructed :
        constructed[g].outcome # "no" =>
            \A arena \in Elems(constructed[g].arena_array) :
                /\ g \in Elems(games[arena])
                /\ \A agent \in Elems(constructed[g].agent_array) :
                      agent \in Elems(agents[arena])

\* C9: a pass-through method called on a class that has not overridden its
\* hook fails with NotImplementedError.
C9_AbstractHookGuard ==
    (lastCall.method \in ArenaMethods \cup AgentMethods \cup GameMethods
        /\ ~lastCall.overridden) => lastCall.result = "NotImplementedError"

\* C10: an AgentThread or GameThread that catches a PoisonPill is
\* Terminated at once; the step puts nothing into any mailbox and leaves
\* every other actor where it was, and from the catch on no envelope with
\* that agent or game as sender is put into any mailbox.
C10_LeafShutdownSilent ==
    [][\A a \in Leaves :
          /\ (accepted'[a] /\ ~accepted[a]) =>
                /\ Terminated(a)'
                /\ enqueued' = enqueued
                /\ \A b \in Actors \ {a} : mailbox'[b] = mailbox[b] /\ pc'[b] = pc[b]
          /\ accepted[a] =>
                \A b \in Actors :
                    enqueued'[b] # enqueued[b] =>
                        enqueued'[b][Len(enqueued'[b])].sender # a]_vars

C10_Witness ==
    \E a \in AgentThreads, g \in GameThreads, b \in ArenaThreads :
        /\ accepted[a] /\ Terminated(a)
        /\ accepted[g] /\ Terminated(g)
        /\ Running(b) /\ mailbox[b] = <<>> /\ agents[b] # <<>>

\* C11: once run(n) has been called on a Game, the Game's episode counter
\* is n and every arena the Game owns is Running.
C11_RunStartsGame ==
    \A g \in CoreGames :
        requested[g] # 0 =>
            /\ episodes[g] = requested[g]
            /\ \A arena \in Elems(arenas[g]) : Running(arena)

\* C12: after arena.register(agent) the agents of the arena hold the agent
\* under its name, and hold no name twice.
C12_RegisterKeyedByName ==
    lastCall.method = "register" =>
        LET registry == agents[lastCall.self]
        IN  /\ Cardinality({i \in DOMAIN registry : registry[i] = lastCall.value}) = 1
            /\ \A i, j \in DOMAIN registry : registry[i] = registry[j] => i = j

\* C13: perceive and policy of an Agent and reset_condition of a Game, called
\* on a class that overrides the hook, return what the hook returned.
C13_QueriesReturnHookValue ==
    (lastCall.method \in {"perceive", "policy", "reset_condition"} /\ lastCall.overridden)
        => lastCall.result = lastCall.value

C15_BaseHandlersInEffect ==
    (lastCall.method = "handleMessage" /\ message_handlers = SourceRegistries) =>
        LET self == lastCall.self
            kind == lastCall.value.kind
        IN  /\ Len(invoked[self]) = 1
            /\ IF kind = PoisonPill
               THEN invoked[self][1].handler = "onPoisonPill" /\ lastCall.result = PoisonPill
               ELSE invoked[self][1].handler = "onUnregisteredMessage"

\* The live() loop of the actor has nothing left to do: it has ended, or it
\* polls an empty mailbox.
Quiescent(a) ==
    \/ pc[a] \in {"absent", "terminated", "crashed"}
    \/ pc[a] = "check" /\ mailbox[a] = <<>>

\* No dispatch of an envelope other than a pill has failed.
NoEarlierFailure ==
    \A b \in ThreadActors :
        raised[b] \notin {None, PoisonPill} =>
            delivered[b][Len(delivered[b])].kind = PoisonPill

HasPill(q) == \E i \in DOMAIN q : q[i].kind = PoisonPill

\* C16: when a PoisonPill was put into an arena's mailbox, no dispatch of
\* an earlier envelope failed, no agent was registered during the run and
\* every live() loop has done all the steps it can take, the arena and
\* every agent and game registered with it are Terminated.
C16_ShutdownCascade ==
    \A a \in ArenaThreads :
        (/\ HasPill(enqueued[a])
         /\ NoEarlierFailure
         /\ nregs = 0
         /\ \A b \in ThreadActors : Quiescent(b))
            => /\ Terminated(a)
               /\ \A t \in Elems(agents[a]) \cup Elems(games[a]) : Terminated(t)

\* C17: over a whole run the arenas together put at most one PoisonPill
\* into the mailbox of any one agent or game.
C17_NoDoublePill ==
    \A t \in Leaves :
        Cardinality({i \in DOMAIN enqueued[t] :
                        /\ enqueued[t][i].kind = PoisonPill
                        /\ enqueued[t][i].sender \in ArenaThreads}) <= 1

\* C18: the propagation of an arena never fails because an agent was
\* registered by another thread while the except block iterated the
\* registry: no arena dies with the RuntimeError of a dict that changed
\* size during iteration.
C18_RegistrySafe ==
    \A a \in ArenaThreads : error[a] # "RuntimeError"

\* The PoisonPills put into the inboxes of the BasicActors.
PillsPut ==
    Cardinality({<<b, i>> \in BasicActors \X (1..(MaxPuts + MaxReplies + 2)) :
                    i \in DOMAIN enqueued[b] /\ enqueued[b][i].kind = PoisonPill})

\* The run of the script: at most one envelope to kick the exchange off,
\* put into one actor's inbox in the name of the other, and one PoisonPill.
ScriptRun ==
    /\ nputs - PillsPut <= 1
    /\ PillsPut = 1
    /\ \A b \in BasicActors : \A i \in DOMAIN enqueued[b] :
          enqueued[b][i].kind # PoisonPill => enqueued[b][i].sender # b

\* The actor holds an envelope to answer and the run has used up the
\* replies the model allows.
OutOfReplies(a) ==
    pc[a] = "handle" /\ current[a].kind # PoisonPill /\ nreplies >= MaxReplies

\* C19: with two BasicActors, one kick-off envelope and one PoisonPill, once
\* an actor has caught the pill at most one more envelope is taken from any
\* inbox, and no reply is sent by the poisoned actor; and an actor that has
\* a pill in its inbox eventually terminates, unless it stops at an
\* envelope it cannot answer within the replies the model allows.
C19_PoisonStopsPingPong ==
    /\ [](ScriptRun =>
            \A a \in BasicActors :
                accepted[a] => TakenBy(BasicActors) - atCatch[a] <= 1)
    /\ [][\A a \in BasicActors :
            (accepted[a] /\ nreplies' # nreplies) =>
                \A b \in BasicActors :
                    enqueued'[b] # enqueued[b] =>
                        enqueued'[b][Len(enqueued'[b])].sender # a]_vars
    /\ \A a \in BasicActors :
          HasPill(mailbox[a]) ~> (Terminated(a) \/ OutOfReplies(a))

C19_Witness ==
    \E a \in BasicActors :
        /\ ScriptRun /\ accepted[a] /\ Terminated(a)
        /\ TakenBy(BasicActors) - atCatch[a] = 1
        /\ mailbox[a] # <<>>
        /\ \A b \in BasicActors : Quiescent(b)

\* C20: a live() loop that has passed the test of empty() and stands before
\* the get finds an envelope in its mailbox, whatever the other threads
\* have done in between: no get is ever made on an empty mailbox.
C20_GetFindsEnvelope ==
    \A a \in Actors : pc[a] = "get" => mailbox[a] # <<>>

C20_Witness ==
    \E a \in ThreadActors \cup BasicActors :
        /\ pc[a] = "get"
        /\ Len(mailbox[a]) >= 2
        /\ delivered[a] # <<>>

\* The envelopes of a queue that are not PoisonPills.
DataIn(q) == Cardinality({i \in DOMAIN q : q[i].kind # PoisonPill})

\* The non-pill envelopes pending in the inboxes of the BasicActors plus
\* those a BasicActor has taken and not yet answered.
TokensInFlight ==
    Cardinality({<<b, i>> \in BasicActors \X (1..(MaxPuts + MaxReplies + 2)) :
                    i \in DOMAIN mailbox[b] /\ mailbox[b][i].kind # PoisonPill})
        + Cardinality({b \in BasicActors : current[b].kind \notin {None, PoisonPill}})

\* One envelope was put to kick the exchange off, and at most one PoisonPill.
SingleKickOff == nputs - PillsPut = 1 /\ PillsPut <= 1

\* C21: with two BasicActors and a single kick-off envelope, in every state
\* exactly one non-pill envelope is pending or being handled; every inbox
\* holds at most one non-pill envelope and at most the one PoisonPill.
C21_TokenConservation ==
    SingleKickOff =>
        /\ TokensInFlight = 1
        /\ \A b \in BasicActors :
              /\ DataIn(mailbox[b]) <= 1
              /\ Len(mailbox[b]) - DataIn(mailbox[b]) <= 1
              /\ Len(mailbox[b]) <= 2

C21_Witness ==
    /\ SingleKickOff
    /\ nreplies >= 2
    /\ \E a \in BasicActors :
          /\ Len(mailbox[a]) = 2 /\ HasPill(mailbox[a]) /\ DataIn(mailbox[a]) = 1
          /\ Running(a)

====
